---------------------------- MODULE Spec2Model ----------------------------
(***************************************************************************)
(* A model of qc_utils.py: the conversion of state-vector probabilities    *)
(* into deterministic shot counts (_get_ideal_counts) and the call         *)
(* sequence of run_and_visualize, quick_run and compare_circuits.          *)
(*                                                                         *)
(* Probabilities are exact rationals num / Denom.  Python's round() on the *)
(* float prob * shots is round-half-to-even of that value.                 *)
(***************************************************************************)
EXTENDS Integers, Sequences, FiniteSets, TLC

(* ------------------------------ bounds -------------------------------- *)

\* Denominator of every modelled probability.
Denom == 16

\* Largest shots argument of the stepwise _get_ideal_counts runs.
MaxShots == 5

\* Largest number of outcomes with non-zero probability (stepwise runs).
MaxOutcomes == 4

\* Largest number of outcomes when two enumeration orders are compared.
PairOutcomes == 3

\* Qubits of every caller circuit.
NumQubits == 2

\* Qubits of the hardware backend a circuit is transpiled onto.
BackendQubits == 5

\* Longest circuits list given to compare_circuits.
MaxCircuits == 2

\* shots: int = 1000, the default of the three entry points.
DefaultShots == 1000

VARIABLES
    \* ---- _get_ideal_counts ----
    probabilities,    \* items of probabilities_dict(), in enumeration order
    shots,            \* the shots argument
    sorted_probs,     \* line 111
    i,                \* loop index of line 113 (1-based here)
    ideal_counts,     \* line 107: dict state -> count
    remaining_shots,  \* line 108
    ipc,              \* position inside _get_ideal_counts
    result,           \* the dict returned at line 123
    processed,        \* history: states in the order the loop assigned them
    probabilities2,   \* the same distribution in a second enumeration order
    result2           \* what _get_ideal_counts returns for probabilities2

VARIABLES
    \* ---- run_and_visualize, quick_run, compare_circuits ----
    fn,               \* the function called
    args,             \* its arguments (circuit arguments are heap references)
    failing,          \* environment: the drawers that raise for these circuits
    heap,             \* circuit objects; a reference is an index into heap
    orig,             \* history: heap as the caller left it at the call
    circuit,          \* circuit / circuits_with_measurement (references)
    hw_circuit,       \* hw_circuit / hw_circuits (references)
    backend,          \* the local backend after the None default
    is_hardware,      \* line 180 / 350 / 527
    trace,            \* history: SDK calls and output, in program order
    submitted,        \* history: the references handed to sampler.run
    ideal_list,       \* ideal_counts / ideal_counts_list (a list here)
    counts_list,      \* counts / hw_counts / all_counts (a list here)
    ret,              \* the returned value
    exc,              \* the exception that left the function ("none": none)
    pc                \* position inside the called function

ivars == <<probabilities, shots, sorted_probs, i, ideal_counts,
           remaining_shots, ipc, result, processed, probabilities2, result2>>

rvars == <<fn, args, failing, heap, orig, circuit, hw_circuit, backend,
           is_hardware, trace, submitted, ideal_list, counts_list, ret, exc,
           pc>>

vars == <<probabilities, shots, sorted_probs, i, ideal_counts,
          remaining_shots, ipc, result, processed, probabilities2, result2,
          fn, args, failing, heap, orig, circuit, hw_circuit, backend,
          is_hardware, trace, submitted, ideal_list, counts_list, ret, exc,
          pc>>

(* ----------------------------- helpers -------------------------------- *)

EmptyDict == [x \in {} |-> 0]

Range(s) == {s[k] : k \in 1..Len(s)}

RECURSIVE SumSeq(_)
SumSeq(s) == IF s = <<>> THEN 0 ELSE Head(s) + SumSeq(Tail(s))

RECURSIVE SumDict(_)
SumDict(d) ==
    IF DOMAIN d = {} THEN 0
    ELSE LET k == CHOOSE x \in DOMAIN d : TRUE
         IN  d[k] + SumDict([x \in DOMAIN d \ {k} |-> d[x]])

\* All sequences of n positive numerators that sum to total.
RECURSIVE Compositions(_, _)
Compositions(n, total) ==
    IF n = 0 THEN (IF total = 0 THEN {<<>>} ELSE {})
    ELSE UNION { { <<h>> \o t : t \in Compositions(n - 1, total - h) }
                 : h \in 1..total }

\* The items of a probabilities dict whose k-th enumerated outcome is basis
\* state k-1 with probability nums[k] / Denom.
Items(nums) == [k \in 1..Len(nums) |-> [state |-> k - 1, num |-> nums[k]]]

\* The enumeration orders of n outcomes.
Orders(n) ==
    {p \in [1..n -> 1..n] : \A a, b \in 1..n : a /= b => p[a] /= p[b]}

(* ------------------------ _get_ideal_counts --------------------------- *)

\* Variant: int(prob * shots), truncation instead of rounding.
PyRoundTrunc(num, s) == (num * s) \div Denom

\* round(prob * shots) with prob = num / Denom: Python 3 rounds a tie to the
\* even neighbour.
PyRound(num, s) ==
    LET q == (num * s) \div Denom
        r == (num * s) % Denom
    IN  IF 2 * r < Denom THEN q
        ELSE IF 2 * r > Denom THEN q + 1
        ELSE IF q % 2 = 0 THEN q ELSE q + 1

\* Insert x before the first item whose probability is not larger: x was
\* enumerated before every item of t, and sorted(..., reverse=True) is stable.
RECURSIVE InsertDesc(_, _)
InsertDesc(x, t) ==
    IF t = <<>> THEN <<x>>
    ELSE IF Head(t).num > x.num THEN <<Head(t)>> \o InsertDesc(x, Tail(t))
    ELSE <<x>> \o t

RECURSIVE SortRec(_)
SortRec(items) ==
    IF items = <<>> THEN <<>>
    ELSE InsertDesc(Head(items), SortRec(Tail(items)))

\* Variant: the items taken in enumeration order, without the sort.
SortedUnsorted(items) == items

\* sorted(probabilities.items(), key=lambda x: x[1], reverse=True)
SortedDesc(items) == SortRec(items)

\* One pass of the loop body for index k: the new (ideal_counts,
\* remaining_shots).
LoopBody(sorted, s, k, counts, remaining) ==
    IF k = Len(sorted)
    THEN [ideal_counts    |-> (sorted[k].state :> remaining) @@ counts,
          remaining_shots |-> remaining]
    ELSE LET count == PyRound(sorted[k].num, s)
         IN  [ideal_counts    |-> (sorted[k].state :> count) @@ counts,
              remaining_shots |-> remaining - count]

\* Variant: the dict returned without the filter.
KeepAll(counts) == counts

\* {state: count for state, count in ideal_counts.items() if count > 0}
PositiveCounts(counts) ==
    [st \in {x \in DOMAIN counts : counts[x] > 0} |-> counts[st]]

RECURSIVE LoopFrom(_, _, _, _, _)
LoopFrom(sorted, s, k, counts, remaining) ==
    IF k > Len(sorted) THEN counts
    ELSE LET b == LoopBody(sorted, s, k, counts, remaining)
         IN  LoopFrom(sorted, s, k + 1, b.ideal_counts, b.remaining_shots)

\* The whole conversion, lines 106-123, for the given dict items.
IdealCountsOf(items, s) ==
    PositiveCounts(LoopFrom(SortedDesc(items), s, 1, EmptyDict, s))

(* ---- stepwise run of _get_ideal_counts ---- *)

IdealInit ==
    /\ \E n \in 1..MaxOutcomes :
         \E nums \in Compositions(n, Denom) : probabilities = Items(nums)
    /\ shots \in 1..MaxShots
    /\ sorted_probs = <<>>
    /\ i = 0
    /\ ideal_counts = EmptyDict
    /\ remaining_shots = 0
    /\ ipc = "start"
    /\ result = EmptyDict
    /\ processed = <<>>
    /\ probabilities2 = <<>>
    /\ result2 = EmptyDict

\* lines 107-111
SortProbs ==
    /\ ipc = "start"
    /\ ideal_counts' = EmptyDict
    /\ remaining_shots' = shots
    /\ sorted_probs' = SortedDesc(probabilities)
    /\ i' = 1
    /\ ipc' = "loop"
    /\ UNCHANGED <<probabilities, shots, result, processed,
                   probabilities2, result2>>
    /\ UNCHANGED rvars

\* lines 113-120, one iteration
LoopIteration ==
    /\ ipc = "loop"
    /\ i <= Len(sorted_probs)
    /\ LET b == LoopBody(sorted_probs, shots, i, ideal_counts, remaining_shots)
       IN  /\ ideal_counts' = b.ideal_counts
           /\ remaining_shots' = b.remaining_shots
    /\ processed' = Append(processed, sorted_probs[i].state)
    /\ i' = i + 1
    /\ UNCHANGED <<probabilities, shots, sorted_probs, ipc, result,
                   probabilities2, result2>>
    /\ UNCHANGED rvars

\* line 123
ReturnCounts ==
    /\ ipc = "loop"
    /\ i > Len(sorted_probs)
    /\ result' = PositiveCounts(ideal_counts)
    /\ ipc' = "done"
    /\ UNCHANGED <<probabilities, shots, sorted_probs, i, ideal_counts,
                   remaining_shots, processed, probabilities2, result2>>
    /\ UNCHANGED rvars

IdealNext == SortProbs \/ LoopIteration \/ ReturnCounts

(* ---- _get_ideal_counts on two enumerations of one distribution ---- *)

\* items re-enumerated: the k-th enumerated item is items[order[k]].
Reordered(items, order) == [k \in 1..Len(items) |-> items[order[k]]]

PairInit ==
    /\ \E n \in 1..PairOutcomes :
         \E nums \in Compositions(n, Denom), order \in Orders(n) :
            /\ probabilities = Items(nums)
            /\ probabilities2 = Reordered(Items(nums), order)
    /\ shots \in 1..MaxShots
    /\ sorted_probs = <<>>
    /\ i = 0
    /\ ideal_counts = EmptyDict
    /\ remaining_shots = 0
    /\ ipc = "first"
    /\ result = EmptyDict
    /\ processed = <<>>
    /\ result2 = EmptyDict

\* _get_ideal_counts for the first enumeration
ComputeFirst ==
    /\ ipc = "first"
    /\ result' = IdealCountsOf(probabilities, shots)
    /\ ipc' = "second"
    /\ UNCHANGED <<probabilities, shots, sorted_probs, i, ideal_counts,
                   remaining_shots, processed, probabilities2, result2>>
    /\ UNCHANGED rvars

\* _get_ideal_counts for the second enumeration
ComputeSecond ==
    /\ ipc = "second"
    /\ result2' = IdealCountsOf(probabilities2, shots)
    /\ ipc' = "both"
    /\ UNCHANGED <<probabilities, shots, sorted_probs, i, ideal_counts,
                   remaining_shots, processed, probabilities2, result>>
    /\ UNCHANGED rvars

PairNext == ComputeFirst \/ ComputeSecond

(* ------------------------- the SDK's objects --------------------------- *)

Gate(name, q)  == [name |-> name, qubit |-> q, creg |-> ""]
Barrier        == [name |-> "barrier", qubit |-> -1, creg |-> ""]
Measure(q, cr) == [name |-> "measure", qubit |-> q, creg |-> cr]

MeasureEach(cr) == [k \in 1..NumQubits |-> Measure(k - 1, cr)]

\* The circuits a caller passes in: QuantumCircuit(n) or QuantumCircuit(n, n)
\* with x(0), with or without measurements.
CallerCircuits ==
    { [num_qubits |-> NumQubits, data |-> <<Gate("x", 0)>>, cregs |-> <<>>],
      [num_qubits |-> NumQubits, data |-> <<Gate("x", 0)>>, cregs |-> <<"c">>],
      [num_qubits |-> NumQubits,
       data |-> <<Gate("x", 0)>> \o MeasureEach("c"), cregs |-> <<"c">>],
      [num_qubits |-> NumQubits,
       data |-> <<Gate("x", 0), Barrier>> \o MeasureEach("meas"),
       cregs |-> <<"meas">>] }

\* QuantumCircuit.measure_all(): a new register 'meas', a barrier and one
\* measurement per qubit.
MeasureAll(c) ==
    [c EXCEPT !.cregs = @ \o <<"meas">>,
              !.data  = @ \o <<Barrier>> \o MeasureEach("meas")]

\* transpile(circuit, backend=backend, optimization_level=3): a new circuit
\* laid out on the backend's qubits; x is a basis gate; registers are kept.
TranspileOf(c, b) == [c EXCEPT !.num_qubits = b.num_qubits]

HasMeasure(c) == \E k \in 1..Len(c.data) : c.data[k].name = "measure"

\* Whether c measures every one of its NumQubits qubits into register cr.
MeasuresAllInto(c, cr) ==
    /\ cr \in Range(c.cregs)
    /\ \A q \in 0..(NumQubits - 1) :
         \E k \in 1..Len(c.data) : c.data[k] = Measure(q, cr)

\* Statevector(qc).probabilities_dict() of a circuit whose gates are x(0):
\* basis state 1 (qubit 0 is the rightmost bit) with probability 1.
StatevectorProbs(c) ==
    LET xs == Cardinality({k \in 1..Len(c.data) : c.data[k].name = "x"})
    IN  <<[state |-> xs % 2, num |-> Denom]>>

Backends ==
    { [none |-> TRUE],
      [name |-> "generic", num_qubits |-> BackendQubits],
      [name |-> "ibm_sim", simulator |-> TRUE, num_qubits |-> BackendQubits],
      [name |-> "ibm_hw", simulator |-> FALSE, num_qubits |-> BackendQubits] }

\* AerSimulator()
AerSimulator == [name |-> "aer_simulator", num_qubits |-> BackendQubits]

IsNone(b) == "none" \in DOMAIN b

\* Variant: not getattr(backend, 'simulator', False).
IsHardwareNoAttrCheck(b) ==
    IF "simulator" \in DOMAIN b THEN ~b.simulator ELSE TRUE

\* hasattr(backend, 'simulator') and not backend.simulator
IsHardware(b) == "simulator" \in DOMAIN b /\ ~b.simulator

Drawers == {"mpl", "text", "latex"}
Styles  == {"mpl", "text", "latex", "other"}

Ev(e, a) == [ev |-> e, arg |-> a]

(* ------------------------- internal helpers ---------------------------- *)

\* _display_circuit: what it prints and whether an exception leaves it.
DisplayCircuit(style, fail) ==
    LET drawer == IF style \in Drawers THEN style ELSE "mpl"
    IN  IF drawer \notin fail
        THEN [events |-> <<Ev("draw", drawer)>>, raised |-> FALSE]
        ELSE IF "text" \in fail
        THEN [events |-> <<Ev("print", "draw_error")>>, raised |-> TRUE]
        ELSE [events |-> <<Ev("print", "draw_error"), Ev("draw", "text")>>,
              raised |-> FALSE]

RECURSIVE DisplayEach(_, _, _)
DisplayEach(n, style, fail) ==
    IF n = 0 THEN [events |-> <<>>, raised |-> FALSE]
    ELSE LET d == DisplayCircuit(style, fail)
         IN  IF d.raised THEN d
             ELSE LET rest == DisplayEach(n - 1, style, fail)
                  IN  [events |-> d.events \o rest.events,
                       raised |-> rest.raised]

\* _display_circuits_grid for n circuits.
DisplayCircuitsGrid(n, style, fail) ==
    IF style = "mpl"
    THEN [events |-> [k \in 1..n |->
                        IF "mpl" \in fail THEN Ev("axes_text", "draw_error")
                        ELSE Ev("draw", "mpl")]
                     \o <<Ev("display", "fig")>>,
          raised |-> FALSE]
    ELSE DisplayEach(n, style, fail)

\* Variant: circuit = qc, a second name for the caller's object.
CopyAlias(h, r) == [heap |-> h, ref |-> r]

\* qc.copy(): a new object with the same contents.
CopyCircuit(h, r) == [heap |-> Append(h, h[r]), ref |-> Len(h) + 1]

\* circuit = qc.copy(); if not circuit.cregs: circuit.measure_all()
CopyWithMeasurement(h, r) ==
    LET cp == CopyCircuit(h, r)
    IN  IF cp.heap[cp.ref].cregs = <<>>
        THEN [heap   |-> [cp.heap EXCEPT ![cp.ref] = MeasureAll(@)],
              ref    |-> cp.ref,
              events |-> <<Ev("copy", r), Ev("measure_all", cp.ref)>>]
        ELSE [heap |-> cp.heap, ref |-> cp.ref, events |-> <<Ev("copy", r)>>]

\* The loop of lines 352-357 over the circuits list.
RECURSIVE CopyAllWithMeasurement(_, _)
CopyAllWithMeasurement(h, refs) ==
    IF refs = <<>> THEN [heap |-> h, refs |-> <<>>, events |-> <<>>]
    ELSE LET one  == CopyWithMeasurement(h, Head(refs))
             rest == CopyAllWithMeasurement(one.heap, Tail(refs))
         IN  [heap   |-> rest.heap,
              refs   |-> <<one.ref>> \o rest.refs,
              events |-> one.events \o rest.events]

\* hw = transpile(qc, backend=backend, optimization_level=3) for each qc.
RECURSIVE TranspileAll(_, _, _)
TranspileAll(h, refs, b) ==
    IF refs = <<>> THEN [heap |-> h, refs |-> <<>>, events |-> <<>>]
    ELSE LET h1   == Append(h, TranspileOf(h[Head(refs)], b))
             rest == TranspileAll(h1, Tail(refs), b)
         IN  [heap   |-> rest.heap,
              refs   |-> <<Len(h1)>> \o rest.refs,
              events |-> <<Ev("transpile", Head(refs))>> \o rest.events]

\* The measurement-free circuit _get_ideal_counts builds (lines 94-100): a
\* copy, replaced by a fresh circuit without the measure instructions when
\* the circuit has classical registers.
NoMeasureCircuit(c) ==
    IF c.cregs /= <<>>
    THEN [num_qubits |-> c.num_qubits,
          data       |-> SelectSeq(c.data, LAMBDA ins : ins.name /= "measure"),
          cregs      |-> <<>>]
    ELSE c

\* The ideal counts taken from a second sampler run on a simulator.
GetIdealCountsBySampler(h, r, s) ==
    [heap   |-> CopyCircuit(h, r).heap,
     counts |-> (1 :> s),
     events |-> <<Ev("copy", r), Ev("sampler.run", <<r>>)>>]

\* _get_ideal_counts(circuit, shots) on the circuit at reference r.
GetIdealCounts(h, r, s) ==
    LET h1  == CopyCircuit(h, r).heap
        h2  == IF h[r].cregs /= <<>> THEN Append(h1, NoMeasureCircuit(h[r]))
               ELSE h1
        qc_no_measure == h2[Len(h2)]
    IN  [heap   |-> h2,
         counts |-> IdealCountsOf(StatevectorProbs(qc_no_measure), s),
         events |-> <<Ev("copy", r), Ev("statevector", Len(h2))>>]

\* _get_ideal_counts_batch
RECURSIVE GetIdealCountsBatch(_, _, _)
GetIdealCountsBatch(h, refs, s) ==
    IF refs = <<>> THEN [heap |-> h, counts |-> <<>>, events |-> <<>>]
    ELSE LET one  == GetIdealCounts(h, Head(refs), s)
             rest == GetIdealCountsBatch(one.heap, Tail(refs), s)
         IN  [heap   |-> rest.heap,
              counts |-> <<one.counts>> \o rest.counts,
              events |-> one.events \o rest.events]

\* What the sampler can return for circuit c: the noiseless outcome of x(0),
\* or one shot flipped by noise.
SampledCounts(c, s, noisy) ==
    IF noisy THEN (0 :> 1) @@ (1 :> s - 1) ELSE (1 :> s)

\* _run_circuit / _run_circuits_batch: one sampler.run for all circuits, then
\* pub_result.data.meas of each, an AttributeError without a register 'meas'.
RunCircuitsBatch(h, refs, s, noisy) ==
    [events |-> <<Ev("sampler.run", refs)>>,
     raised |-> \E k \in 1..Len(refs) : "meas" \notin Range(h[refs[k]].cregs),
     counts |-> [k \in 1..Len(refs) |-> SampledCounts(h[refs[k]], s, noisy)]]

(* --------------------------- entry points ------------------------------ *)

NoArgs == [qcs |-> <<>>, shots |-> 0, backend |-> [none |-> TRUE],
           show_circuit |-> FALSE, show_histogram |-> FALSE,
           show_results |-> FALSE, circuit_style |-> "mpl",
           compare_with_ideal |-> FALSE, optimize_circuit |-> FALSE]

NoReturn == [tuple |-> FALSE, ideal |-> <<>>, counts |-> <<>>]

RunnerInit ==
    /\ fn = "none"
    /\ args = NoArgs
    /\ failing = {}
    /\ heap = <<>>
    /\ orig = <<>>
    /\ circuit = <<>>
    /\ hw_circuit = <<>>
    /\ backend = [none |-> TRUE]
    /\ is_hardware = FALSE
    /\ trace = <<>>
    /\ submitted = <<>>
    /\ ideal_list = <<>>
    /\ counts_list = <<>>
    /\ ret = NoReturn
    /\ exc = "none"
    /\ pc = "idle"

\* The drawers that can raise matter only when a circuit is drawn.
Failures(show) == IF show THEN SUBSET Drawers ELSE {{}}

\* A call run_and_visualize(qc, shots, backend, show_circuit, ...).
CallRunAndVisualize ==
    /\ pc = "idle"
    /\ \E c \in CallerCircuits, b \in Backends, style \in Styles,
          sc, sh, sr, cmp, opt \in BOOLEAN :
         /\ heap' = <<c>>
         /\ args' = [qcs |-> <<1>>, shots |-> DefaultShots, backend |-> b,
                     show_circuit |-> sc, show_histogram |-> sh,
                     show_results |-> sr, circuit_style |-> style,
                     compare_with_ideal |-> cmp, optimize_circuit |-> opt]
         /\ failing' \in Failures(sc)
    /\ orig' = heap'
    /\ fn' = "run_and_visualize"
    /\ pc' = "rv_prepare"
    /\ UNCHANGED <<circuit, hw_circuit, backend, is_hardware, trace,
                   submitted, ideal_list, counts_list, ret, exc>>
    /\ UNCHANGED ivars

\* A call quick_run(qc, shots, backend, show_results, compare_with_ideal).
CallQuickRun ==
    /\ pc = "idle"
    /\ \E c \in CallerCircuits, b \in Backends, sr, cmp \in BOOLEAN :
         /\ heap' = <<c>>
         /\ args' = [NoArgs EXCEPT !.qcs = <<1>>, !.shots = DefaultShots,
                                   !.backend = b, !.show_results = sr,
                                   !.compare_with_ideal = cmp]
    /\ failing' = {}
    /\ orig' = heap'
    /\ fn' = "quick_run"
    /\ pc' = "qr_prepare"
    /\ UNCHANGED <<circuit, hw_circuit, backend, is_hardware, trace,
                   submitted, ideal_list, counts_list, ret, exc>>
    /\ UNCHANGED ivars

\* A call compare_circuits(circuits, labels, shots, backend, ...).
CallCompareCircuits ==
    /\ pc = "idle"
    /\ \E n \in 1..MaxCircuits, b \in Backends, style \in Styles,
          sc, sh, sr, cmp \in BOOLEAN :
         /\ heap' \in [1..n -> CallerCircuits]
         /\ args' = [NoArgs EXCEPT !.qcs = [k \in 1..n |-> k],
                                   !.shots = DefaultShots, !.backend = b,
                                   !.show_circuit = sc,
                                   !.show_histogram = sh,
                                   !.show_results = sr,
                                   !.circuit_style = style,
                                   !.compare_with_ideal = cmp]
         /\ failing' \in Failures(sc)
    /\ orig' = heap'
    /\ fn' = "compare_circuits"
    /\ pc' = "cc_prepare"
    /\ UNCHANGED <<circuit, hw_circuit, backend, is_hardware, trace,
                   submitted, ideal_list, counts_list, ret, exc>>
    /\ UNCHANGED ivars

\* if backend is None: backend = AerSimulator()
DefaultBackend(b) == IF IsNone(b) THEN AerSimulator ELSE b

\* Variant: if is_hardware, as compare_circuits and quick_run have it.
ShouldTranspileAlways(hw, opt) == hw

\* if is_hardware and optimize_circuit:
ShouldTranspile(hw, opt) == hw /\ opt

\* The text and the histogram printed after the run.
OutputEvents(a) ==
    (IF a.show_results THEN <<Ev("print", "results")>> ELSE <<>>)
    \o (IF a.show_histogram THEN <<Ev("histogram", "counts")>> ELSE <<>>)

(* ---- run_and_visualize ---- *)

\* lines 167-180
RV_Prepare ==
    /\ pc = "rv_prepare"
    /\ LET m == CopyWithMeasurement(heap, args.qcs[1])
       IN  /\ heap' = m.heap
           /\ circuit' = <<m.ref>>
           /\ trace' = trace \o m.events
    /\ backend' = DefaultBackend(args.backend)
    /\ is_hardware' = IsHardware(backend')
    /\ pc' = "rv_show"
    /\ UNCHANGED <<fn, args, failing, orig, hw_circuit, submitted,
                   ideal_list, counts_list, ret, exc>>
    /\ UNCHANGED ivars

\* lines 183-185
RV_ShowCircuit ==
    /\ pc = "rv_show"
    /\ IF args.show_circuit
       THEN LET d == DisplayCircuit(args.circuit_style, failing)
            IN  /\ trace' = trace \o <<Ev("print", "[ Quantum Circuit ]")>>
                                  \o d.events
                /\ pc' = IF d.raised THEN "raised" ELSE "rv_transpile"
                /\ exc' = IF d.raised THEN "DrawError" ELSE exc
       ELSE /\ pc' = "rv_transpile"
            /\ UNCHANGED <<trace, exc>>
    /\ UNCHANGED <<fn, args, failing, heap, orig, circuit, hw_circuit,
                   backend, is_hardware, submitted, ideal_list, counts_list,
                   ret>>
    /\ UNCHANGED ivars

\* lines 188-195
RV_Transpile ==
    /\ pc = "rv_transpile"
    /\ IF ShouldTranspile(is_hardware, args.optimize_circuit)
       THEN LET t == TranspileAll(heap, circuit, backend)
                d == IF args.show_circuit /\ args.circuit_style = "mpl"
                     THEN DisplayCircuit(args.circuit_style, failing)
                     ELSE [events |-> <<>>, raised |-> FALSE]
            IN  /\ heap' = t.heap
                /\ hw_circuit' = t.refs
                /\ trace' = trace \o t.events \o d.events
                /\ pc' = IF d.raised THEN "raised" ELSE "rv_execute"
                /\ exc' = IF d.raised THEN "DrawError" ELSE exc
       ELSE /\ hw_circuit' = circuit
            /\ pc' = "rv_execute"
            /\ UNCHANGED <<heap, trace, exc>>
    /\ UNCHANGED <<fn, args, failing, orig, circuit, backend, is_hardware,
                   submitted, ideal_list, counts_list, ret>>
    /\ UNCHANGED ivars

\* lines 198-201 and 259
RV_Execute ==
    /\ pc = "rv_execute"
    /\ \E noisy \in BOOLEAN :
         IF is_hardware /\ args.compare_with_ideal
         THEN LET g == GetIdealCounts(heap, circuit[1], args.shots)
                  r == RunCircuitsBatch(g.heap, hw_circuit, args.shots, noisy)
              IN  /\ heap' = g.heap
                  /\ trace' = trace \o g.events \o r.events
                  /\ ideal_list' = <<g.counts>>
                  /\ counts_list' = IF r.raised THEN counts_list ELSE r.counts
                  /\ pc' = IF r.raised THEN "raised" ELSE "rv_output"
                  /\ exc' = IF r.raised THEN "AttributeError" ELSE exc
         ELSE LET r == RunCircuitsBatch(heap, hw_circuit, args.shots, noisy)
              IN  /\ trace' = trace \o r.events
                  /\ counts_list' = IF r.raised THEN counts_list ELSE r.counts
                  /\ pc' = IF r.raised THEN "raised" ELSE "rv_output"
                  /\ exc' = IF r.raised THEN "AttributeError" ELSE exc
                  /\ UNCHANGED <<heap, ideal_list>>
    /\ submitted' = hw_circuit
    /\ UNCHANGED <<fn, args, failing, orig, circuit, hw_circuit, backend,
                   is_hardware, ret>>
    /\ UNCHANGED ivars

\* lines 204-255 and 261-292
RV_Output ==
    /\ pc = "rv_output"
    /\ trace' = trace \o OutputEvents(args)
    /\ ret' = IF is_hardware /\ args.compare_with_ideal
              THEN [tuple |-> TRUE, ideal |-> ideal_list,
                    counts |-> counts_list]
              ELSE [tuple |-> FALSE, ideal |-> <<>>, counts |-> counts_list]
    /\ pc' = "returned"
    /\ UNCHANGED <<fn, args, failing, heap, orig, circuit, hw_circuit,
                   backend, is_hardware, submitted, ideal_list, counts_list,
                   exc>>
    /\ UNCHANGED ivars

(* ---- quick_run ---- *)

\* lines 519-527
QR_Prepare ==
    /\ pc = "qr_prepare"
    /\ LET m == CopyWithMeasurement(heap, args.qcs[1])
       IN  /\ heap' = m.heap
           /\ circuit' = <<m.ref>>
           /\ trace' = trace \o m.events
    /\ backend' = DefaultBackend(args.backend)
    /\ is_hardware' = IsHardware(backend')
    /\ pc' = "qr_transpile"
    /\ UNCHANGED <<fn, args, failing, orig, hw_circuit, submitted,
                   ideal_list, counts_list, ret, exc>>
    /\ UNCHANGED ivars

\* lines 529-530: circuit is rebound to the transpiled circuit
QR_Transpile ==
    /\ pc = "qr_transpile"
    /\ IF is_hardware
       THEN LET t == TranspileAll(heap, circuit, backend)
            IN  /\ heap' = t.heap
                /\ circuit' = t.refs
                /\ trace' = trace \o t.events
       ELSE UNCHANGED <<heap, circuit, trace>>
    /\ pc' = "qr_execute"
    /\ UNCHANGED <<fn, args, failing, orig, hw_circuit, backend,
                   is_hardware, submitted, ideal_list, counts_list, ret, exc>>
    /\ UNCHANGED ivars

\* lines 532-538 and 554
QR_Execute ==
    /\ pc = "qr_execute"
    /\ \E noisy \in BOOLEAN :
         IF is_hardware /\ args.compare_with_ideal
         THEN LET o == CopyWithMeasurement(heap, args.qcs[1])
                  g == GetIdealCounts(o.heap, o.ref, args.shots)
                  r == RunCircuitsBatch(g.heap, circuit, args.shots, noisy)
              IN  /\ heap' = g.heap
                  /\ trace' = trace \o o.events \o g.events \o r.events
                  /\ ideal_list' = <<g.counts>>
                  /\ counts_list' = IF r.raised THEN counts_list ELSE r.counts
                  /\ pc' = IF r.raised THEN "raised" ELSE "qr_output"
                  /\ exc' = IF r.raised THEN "AttributeError" ELSE exc
         ELSE LET r == RunCircuitsBatch(heap, circuit, args.shots, noisy)
              IN  /\ trace' = trace \o r.events
                  /\ counts_list' = IF r.raised THEN counts_list ELSE r.counts
                  /\ pc' = IF r.raised THEN "raised" ELSE "qr_output"
                  /\ exc' = IF r.raised THEN "AttributeError" ELSE exc
                  /\ UNCHANGED <<heap, ideal_list>>
    /\ submitted' = circuit
    /\ UNCHANGED <<fn, args, failing, orig, circuit, hw_circuit, backend,
                   is_hardware, ret>>
    /\ UNCHANGED ivars

\* lines 540-552 and 556-563
QR_Output ==
    /\ pc = "qr_output"
    /\ trace' = trace \o OutputEvents(args)
    /\ ret' = IF is_hardware /\ args.compare_with_ideal
              THEN [tuple |-> TRUE, ideal |-> ideal_list,
                    counts |-> counts_list]
              ELSE [tuple |-> FALSE, ideal |-> <<>>, counts |-> counts_list]
    /\ pc' = "returned"
    /\ UNCHANGED <<fn, args, failing, heap, orig, circuit, hw_circuit,
                   backend, is_hardware, submitted, ideal_list, counts_list,
                   exc>>
    /\ UNCHANGED ivars

(* ---- compare_circuits ---- *)

\* lines 342-357
CC_Prepare ==
    /\ pc = "cc_prepare"
    /\ backend' = DefaultBackend(args.backend)
    /\ is_hardware' = IsHardware(backend')
    /\ LET m == CopyAllWithMeasurement(heap, args.qcs)
       IN  /\ heap' = m.heap
           /\ circuit' = m.refs
           /\ trace' = trace \o m.events
    /\ pc' = "cc_show"
    /\ UNCHANGED <<fn, args, failing, orig, hw_circuit, submitted,
                   ideal_list, counts_list, ret, exc>>
    /\ UNCHANGED ivars

\* lines 360-362
CC_ShowCircuits ==
    /\ pc = "cc_show"
    /\ IF args.show_circuit
       THEN LET d == DisplayCircuitsGrid(Len(circuit), args.circuit_style,
                                         failing)
            IN  /\ trace' = trace \o <<Ev("print", "[ Quantum Circuits ]")>>
                                  \o d.events
                /\ pc' = IF d.raised THEN "raised" ELSE "cc_transpile"
                /\ exc' = IF d.raised THEN "DrawError" ELSE exc
       ELSE /\ pc' = "cc_transpile"
            /\ UNCHANGED <<trace, exc>>
    /\ UNCHANGED <<fn, args, failing, heap, orig, circuit, hw_circuit,
                   backend, is_hardware, submitted, ideal_list, counts_list,
                   ret>>
    /\ UNCHANGED ivars

\* lines 365-374
CC_Transpile ==
    /\ pc = "cc_transpile"
    /\ IF is_hardware
       THEN LET t == TranspileAll(heap, circuit, backend)
                d == IF args.show_circuit /\ args.circuit_style = "mpl"
                     THEN DisplayCircuitsGrid(Len(circuit),
                                              args.circuit_style, failing)
                     ELSE [events |-> <<>>, raised |-> FALSE]
            IN  /\ heap' = t.heap
                /\ hw_circuit' = t.refs
                /\ trace' = trace \o t.events \o d.events
                /\ pc' = IF d.raised THEN "raised" ELSE "cc_execute"
                /\ exc' = IF d.raised THEN "DrawError" ELSE exc
       ELSE /\ hw_circuit' = circuit
            /\ pc' = "cc_execute"
            /\ UNCHANGED <<heap, trace, exc>>
    /\ UNCHANGED <<fn, args, failing, orig, circuit, backend, is_hardware,
                   submitted, ideal_list, counts_list, ret>>
    /\ UNCHANGED ivars

\* lines 377-380 and 448
CC_Execute ==
    /\ pc = "cc_execute"
    /\ \E noisy \in BOOLEAN :
         IF is_hardware /\ args.compare_with_ideal
         THEN LET g == GetIdealCountsBatch(heap, circuit, args.shots)
                  r == RunCircuitsBatch(g.heap, hw_circuit, args.shots, noisy)
              IN  /\ heap' = g.heap
                  /\ trace' = trace \o g.events \o r.events
                  /\ ideal_list' = g.counts
                  /\ counts_list' = IF r.raised THEN counts_list ELSE r.counts
                  /\ pc' = IF r.raised THEN "raised" ELSE "cc_output"
                  /\ exc' = IF r.raised THEN "AttributeError" ELSE exc
         ELSE LET r == RunCircuitsBatch(heap, hw_circuit, args.shots, noisy)
              IN  /\ trace' = trace \o r.events
                  /\ counts_list' = IF r.raised THEN counts_list ELSE r.counts
                  /\ pc' = IF r.raised THEN "raised" ELSE "cc_output"
                  /\ exc' = IF r.raised THEN "AttributeError" ELSE exc
                  /\ UNCHANGED <<heap, ideal_list>>
    /\ submitted' = hw_circuit
    /\ UNCHANGED <<fn, args, failing, orig, circuit, hw_circuit, backend,
                   is_hardware, ret>>
    /\ UNCHANGED ivars

\* lines 383-444 and 450-490
CC_Output ==
    /\ pc = "cc_output"
    /\ trace' = trace \o OutputEvents(args)
    /\ ret' = IF is_hardware /\ args.compare_with_ideal
              THEN [tuple |-> TRUE, ideal |-> ideal_list,
                    counts |-> counts_list]
              ELSE [tuple |-> FALSE, ideal |-> <<>>, counts |-> counts_list]
    /\ pc' = "returned"
    /\ UNCHANGED <<fn, args, failing, heap, orig, circuit, hw_circuit,
                   backend, is_hardware, submitted, ideal_list, counts_list,
                   exc>>
    /\ UNCHANGED ivars

(* -------------------------- specifications ----------------------------- *)

IdealIdle ==
    /\ probabilities = <<>>
    /\ shots = 0
    /\ sorted_probs = <<>>
    /\ i = 0
    /\ ideal_counts = EmptyDict
    /\ remaining_shots = 0
    /\ ipc = "idle"
    /\ result = EmptyDict
    /\ processed = <<>>
    /\ probabilities2 = <<>>
    /\ result2 = EmptyDict

\* The three entry points, one call per behaviour.
Init == RunnerInit /\ IdealIdle

RunnerNext ==
    \/ CallRunAndVisualize \/ CallQuickRun \/ CallCompareCircuits
    \/ RV_Prepare \/ RV_ShowCircuit \/ RV_Transpile \/ RV_Execute
    \/ RV_Output
    \/ QR_Prepare \/ QR_Transpile \/ QR_Execute \/ QR_Output
    \/ CC_Prepare \/ CC_ShowCircuits \/ CC_Transpile \/ CC_Execute
    \/ CC_Output

Next == RunnerNext

Spec == Init /\ [][Next]_vars

\* _get_ideal_counts alone, statement by statement, for every distribution
\* over at most MaxOutcomes outcomes and every shots in 1..MaxShots.
InitIdeal == IdealInit /\ RunnerInit

NextIdeal == IdealNext

SpecIdeal == InitIdeal /\ [][NextIdeal]_vars

\* _get_ideal_counts called twice on one distribution whose outcomes are
\* enumerated in two orders.
InitOrder == PairInit /\ RunnerInit

NextOrder == PairNext

SpecOrder == InitOrder /\ [][NextOrder]_vars

(* ------------------------------ claims --------------------------------- *)

\* The probability numerator of outcome st in the probabilities dict.
NumOf(items, st) ==
    LET k == CHOOSE j \in 1..Len(items) : items[j].state = st
    IN  items[k].num

Abs(x) == IF x < 0 THEN -x ELSE x

\* C1 (SpecIdeal): the counts returned by _get_ideal_counts sum to exactly
\* shots.
C1_CountsSumToShots ==
    ipc = "done" => SumDict(result) = shots

\* C7 as claimed (SpecOrder): the returned mapping is the same whatever order
\* the outcomes are enumerated in.
C7_AnyEnumerationOrder ==
    ipc = "both" => result = result2

\* Two enumerations list every pair of equally probable outcomes in the same
\* relative order.
TiesAgree(items1, items2) ==
    \A a, b \in 1..Len(items1) :
        (a < b /\ items1[a].num = items1[b].num) =>
            \A c, d \in 1..Len(items2) :
                (items2[c] = items1[a] /\ items2[d] = items1[b]) => c < d

\* C7 as amended (SpecOrder): the returned mapping depends only on the
\* probabilities, on shots and on the relative enumeration order of outcomes
\* of equal probability; two enumerations that agree on every such pair give
\* the same counts, however else they differ.
C7_SameCountsUpToTies ==
    (ipc = "both" /\ TiesAgree(probabilities, probabilities2)) =>
        result = result2

\* C7 witness: two different enumerations, with a tie kept in the same
\* relative order, converted to the same non-trivial counts.
C7_Witness ==
    /\ ipc = "both"
    /\ probabilities /= probabilities2
    /\ TiesAgree(probabilities, probabilities2)
    /\ \E a, b \in 1..Len(probabilities) :
          a /= b /\ probabilities[a].num = probabilities[b].num
    /\ Cardinality(DOMAIN result) >= 2
    /\ result = result2

\* C8 (SpecIdeal): the loop assigns the outcomes in order of descending
\* probability; every outcome but the last gets an integer nearest to
\* probability * shots, the last gets shots minus the counts of the others.
C8_RoundedInDescendingOrder ==
    LET n == Len(processed)
    IN  /\ \A k \in 1..(n - 1) :
              NumOf(probabilities, processed[k])
                  >= NumOf(probabilities, processed[k + 1])
        /\ \A a, b \in 1..n : a /= b => processed[a] /= processed[b]
        /\ ipc = "done" =>
              /\ n = Len(probabilities)
              /\ DOMAIN ideal_counts = Range(processed)
              /\ \A k \in 1..(n - 1) :
                    2 * Abs(ideal_counts[processed[k]] * Denom
                            - NumOf(probabilities, processed[k]) * shots)
                        <= Denom
              /\ ideal_counts[processed[n]] =
                    shots - SumSeq([k \in 1..(n - 1) |->
                                       ideal_counts[processed[k]]])

\* C8 witness: a finished run over at least three outcomes that were not
\* enumerated in descending order and of which one count was rounded.
C8_Witness ==
    /\ ipc = "done"
    /\ Len(processed) >= 3
    /\ \E k \in 1..(Len(probabilities) - 1) :
          probabilities[k].num < probabilities[k + 1].num
    /\ \E k \in 1..(Len(processed) - 1) :
          ideal_counts[processed[k]] * Denom
              /= NumOf(probabilities, processed[k]) * shots

\* C9 (SpecIdeal): every returned count is an integer in 1..shots, and an
\* outcome whose computed count is zero or negative is not returned.
C9_ReturnedCountsPositive ==
    ipc = "done" =>
        /\ \A st \in DOMAIN result : result[st] \in 1..shots
        /\ \A st \in DOMAIN ideal_counts :
              ideal_counts[st] <= 0 => st \notin DOMAIN result
        /\ \A st \in DOMAIN ideal_counts :
              ideal_counts[st] > 0 =>
                  st \in DOMAIN result /\ result[st] = ideal_counts[st]

\* C9 witness: a finished run whose last bucket was driven below zero by
\* the rounding of the others, and which returns the other counts.
C9_Witness ==
    /\ ipc = "done"
    /\ \E st \in DOMAIN ideal_counts : ideal_counts[st] < 0
    /\ DOMAIN result /= {}

\* The drawer _display_circuit uses for a style.
StyleDrawer(style) == IF style \in Drawers THEN style ELSE "mpl"

EventsOf(kinds) == {k \in 1..Len(trace) : trace[k].ev \in kinds}

\* C2 (Spec): when drawing the circuit in run_and_visualize raises, for any
\* style, the exception is caught, the plain text rendering is printed and
\* no drawing exception reaches the caller.
C2_DrawErrorDegradedToText ==
    (/\ fn = "run_and_visualize"
     /\ args.show_circuit
     /\ StyleDrawer(args.circuit_style) \in failing
     /\ pc \notin {"rv_prepare", "rv_show"}) =>
        /\ exc /= "DrawError"
        /\ Ev("draw", "text") \in Range(trace)

\* C3 (Spec): the circuits the caller passed in keep their instructions and
\* their classical registers throughout the call.
C3_CallerCircuitsUnchanged ==
    /\ Len(heap) >= Len(orig)
    /\ \A k \in 1..Len(orig) : heap[k] = orig[k]

\* C3 witness: a finished call on hardware in which measure_all was added
\* to the copy, the copy was transpiled and the ideal counts were computed.
C3_Witness ==
    /\ pc = "returned"
    /\ EventsOf({"measure_all"}) /= {}
    /\ EventsOf({"transpile"}) /= {}
    /\ EventsOf({"statevector"}) /= {}
    /\ \E k \in 1..Len(orig) : orig[k].cregs = <<>>

\* C4 (Spec): a pair (ideal counts, hardware counts) is returned exactly when
\* the backend has a 'simulator' attribute that is false and
\* compare_with_ideal is true; otherwise the sampler's counts alone.
C4_PairIffHardwareAndCompare ==
    pc = "returned" =>
        LET hw == /\ "simulator" \in DOMAIN args.backend
                  /\ args.backend.simulator = FALSE
        IN  /\ ret.tuple <=> (hw /\ args.compare_with_ideal)
            /\ ret.counts = counts_list
            /\ Len(ret.counts) = Len(args.qcs)
            /\ IF ret.tuple
               THEN ret.ideal = ideal_list /\ Len(ret.ideal) = Len(args.qcs)
               ELSE ret.ideal = <<>>

\* C4 witness: a pair returned from a hardware backend.
C4_Witness ==
    /\ pc = "returned"
    /\ ret.tuple
    /\ Len(ret.ideal) >= 1

\* C5 (Spec): a caller circuit without any measurement is submitted to the
\* sampler as a circuit that measures every qubit into register 'meas'.
C5_SubmittedMeasuresAllIntoMeas ==
    \A k \in 1..Len(submitted) :
        ~HasMeasure(orig[args.qcs[k]]) =>
            MeasuresAllInto(heap[submitted[k]], "meas")

\* C6 (Spec): run_and_visualize transpiles iff the backend is hardware and
\* optimize_circuit is true; the sampler gets the transpiled circuit in that
\* case and the measured copy itself otherwise.
C6_TranspiledIffHardwareAndOptimize ==
    (fn = "run_and_visualize" /\ submitted /= <<>>) =>
        LET hw == /\ "simulator" \in DOMAIN args.backend
                  /\ args.backend.simulator = FALSE
            n  == Cardinality(EventsOf({"transpile"}))
        IN  IF hw /\ args.optimize_circuit
            THEN /\ n = 1
                 /\ Len(submitted) = 1
                 /\ submitted[1] /= circuit[1]
                 /\ heap[submitted[1]] = TranspileOf(heap[circuit[1]], backend)
            ELSE /\ n = 0
                 /\ submitted = circuit

\* C6 witness: run_and_visualize submitted a transpiled circuit to hardware.
C6_Witness ==
    /\ fn = "run_and_visualize"
    /\ submitted /= <<>>
    /\ is_hardware
    /\ args.optimize_circuit
    /\ EventsOf({"transpile"}) /= {}

\* C10 (Spec): the call starts with the copy; the sampler is run at most
\* once, and exactly once in a call that returns; every measure_all and
\* every transpile precedes the sampler run, a copy's measure_all precedes
\* its transpile, only copies are submitted, and no result text or
\* histogram precedes the sampler run.
C10_StepOrder ==
    LET runs == EventsOf({"sampler.run"})
    IN  /\ Cardinality(runs) <= 1
        /\ pc = "returned" => Cardinality(runs) = 1
        /\ trace /= <<>> => trace[1].ev = "copy"
        /\ \A a \in runs :
              /\ \A b \in EventsOf({"measure_all", "transpile"}) : b < a
              /\ \A b \in 1..Len(trace) :
                    trace[b] \in {Ev("print", "results"),
                                  Ev("histogram", "counts")} => a < b
              /\ \A k \in 1..Len(trace[a].arg) :
                    trace[a].arg[k] \notin 1..Len(orig)
        /\ \A a, b \in 1..Len(trace) :
              (/\ trace[a].ev = "transpile"
               /\ trace[b].ev = "measure_all"
               /\ trace[a].arg = trace[b].arg) => b < a

\* C10 witness: a returned call that added the measurement, transpiled, ran
\* the sampler and printed both the result text and the histogram.
C10_Witness ==
    /\ pc = "returned"
    /\ EventsOf({"measure_all"}) /= {}
    /\ EventsOf({"transpile"}) /= {}
    /\ Ev("print", "results") \in Range(trace)
    /\ Ev("histogram", "counts") \in Range(trace)

=============================================================================
